---- MODULE Spec2Model ----
(***************************************************************************)
(* A model of grixy's dense buffer-backed grid (GridBuf), the checked     *)
(* read/write layer derived from the unchecked primitives, and the        *)
(* rectangular transfer operations (copy_rect, copy_rect_scaled,          *)
(* blit_rect, blit_rect_scaled).                                          *)
(*                                                                         *)
(* A grid is a record [buffer, width, height, layout]; the buffer is a    *)
(* sequence, so the element at linear index i is buffer[i + 1].           *)
(* Every operation returns the grid it leaves behind together with the    *)
(* log of the unchecked calls and buffer indices it used.                 *)
(***************************************************************************)
EXTENDS Integers, Sequences, FiniteSets, TLC

VARIABLES dst, src, last, log, shadow, steps, build

vars == <<dst, src, last, log, shadow, steps, build>>

(***************************************************************************)
(* Bounds of the model.                                                    *)
(***************************************************************************)
\* largest width and height of a constructed grid
MaxDim == 2
\* largest left / top coordinate of a rectangle argument
MaxPos == 1
\* largest width / height of a rectangle argument
MaxRect == 2
\* values written by set / fill are 0..MaxVal
MaxVal == 1
\* a behaviour is a construction followed by up to MaxOps single-cell
\* operations or by one rectangle operation
MaxOps == 2
\* capacity N of the array-backed grids ([T; N])
MaxCap == 2

(***************************************************************************)
(* Value types.                                                            *)
(***************************************************************************)
Layouts == {"RowMajor", "ColumnMajor"}

Builds == {"debug", "release"}

Pos(x, y) == [x |-> x, y |-> y]

from_ltwh(l, t, w, h) == [left |-> l, top |-> t, width |-> w, height |-> h]

top_left(rect) == Pos(rect.left, rect.top)

right(rect) == rect.left + rect.width

bottom(rect) == rect.top + rect.height

to_rect(width, height) == from_ltwh(0, 0, width, height)

GridBuf(buffer, width, height, layout) ==
    [buffer |-> buffer, width |-> width, height |-> height, layout |-> layout]

\* no grid has been constructed yet (or construction failed)
NoGrid == GridBuf(<<>>, 0, 0, "None")

\* the value read by an out-of-bounds unchecked access
Poison == -1

Min(a, b) == IF a < b THEN a ELSE b

Max(a, b) == IF a > b THEN a ELSE b

\* the buffer <<1, 2, ..., n>>: every element names its own linear index
Iota(n) == [i \in 1..n |-> i]

\* vec![value; n] and [value; N]
Filled(n, value) == [i \in 1..n |-> value]

(***************************************************************************)
(* Layouts: position <-> index, traversal order, aligned slices.           *)
(***************************************************************************)
\* Linear::to_1d / pos_to_index(pos, width): the second argument is the
\* stride of the major axis, and GridBuf always passes its width.
pos_to_index(layout, pos, width) ==
    IF layout = "RowMajor" THEN pos.y * width + pos.x
    ELSE pos.x * width + pos.y

\* Linear::index_to_pos(index, width): the inverse of pos_to_index for the
\* same stride
index_to_pos(layout, index, width) ==
    IF layout = "RowMajor" THEN Pos(index % width, index \div width)
    ELSE Pos(index \div width, index % width)

\* grixy's Linear::to_1d / to_2d forward to the traversal of the layout
to_1d(layout, pos, width) == pos_to_index(layout, pos, width)

to_2d(layout, index, width) == index_to_pos(layout, index, width)

\* Layout::iter_pos(rect): the positions of rect in traversal order.
iter_pos(layout, rect) ==
    IF layout = "RowMajor"
    THEN [i \in 1..(rect.width * rect.height) |->
            Pos(rect.left + ((i - 1) % rect.width), rect.top + ((i - 1) \div rect.width))]
    ELSE [i \in 1..(rect.width * rect.height) |->
            Pos(rect.left + ((i - 1) \div rect.height), rect.top + ((i - 1) % rect.height))]

\* Rect::intersect: the overlap of two rectangles, empty when they are disjoint.
intersect(a, b) ==
    LET l == Max(a.left, b.left)
        t == Max(a.top, b.top)
        r == Min(right(a), right(b))
        m == Min(bottom(a), bottom(b))
    IN IF l < r /\ t < m THEN from_ltwh(l, t, r - l, m - t) ELSE from_ltwh(0, 0, 0, 0)

\* Linear::slice_rect_aligned(slice, size, rect): the contiguous run
\* [start, start + len) of the buffer that is exactly rect, if there is one.
slice_rect_aligned(layout, buflen, width, height, rect) ==
    LET start == pos_to_index(layout, top_left(rect), width)
        len == rect.width * rect.height
        aligned == IF layout = "RowMajor"
                   THEN (rect.left = 0 /\ rect.width = width) \/ rect.height = 1
                   ELSE (rect.top = 0 /\ rect.height = height) \/ rect.width = 1
    IN IF len > 0 /\ aligned /\ start + len <= buflen
       THEN [some |-> TRUE, start |-> start, len |-> len]
       ELSE [some |-> FALSE, start |-> 0, len |-> 0]

(***************************************************************************)
(* TrustedSizeGrid.                                                        *)
(***************************************************************************)
\* contains with an off-by-one comparison on the column
contains_inclusive(g, pos) == pos.x <= g.width /\ pos.y < g.height

contains(g, pos) == pos.x < g.width /\ pos.y < g.height

(***************************************************************************)
(* GridBuf: the unchecked primitives.  A log entry records one unchecked   *)
(* call (its position) or one slice access, and the buffer index it uses.  *)
(***************************************************************************)
NoPos == Pos(-1, -1)

Entry(on, kind, pos, index) == [on |-> on, kind |-> kind, pos |-> pos, index |-> index]

\* get_unchecked reading the cell of the transposed position
get_unchecked_transposed(g, pos) ==
    LET index == pos_to_index(g.layout, Pos(pos.y, pos.x), g.width)
    IN [value |-> IF index < Len(g.buffer) THEN g.buffer[index + 1] ELSE Poison,
        index |-> index]

\* GridBuf::get_unchecked
get_unchecked(g, pos) ==
    LET index == pos_to_index(g.layout, pos, g.width)
    IN [value |-> IF index < Len(g.buffer) THEN g.buffer[index + 1] ELSE Poison,
        index |-> index]

\* set_unchecked storing into the cell after the addressed one
set_unchecked_shifted(g, pos, value) ==
    LET index == pos_to_index(g.layout, pos, g.width) + 1
    IN [g |-> IF index < Len(g.buffer)
              THEN [g EXCEPT !.buffer = [g.buffer EXCEPT ![index + 1] = value]]
              ELSE g,
        index |-> index]

\* GridBuf::set_unchecked
set_unchecked(g, pos, value) ==
    LET index == pos_to_index(g.layout, pos, g.width)
    IN [g |-> IF index < Len(g.buffer)
              THEN [g EXCEPT !.buffer = [g.buffer EXCEPT ![index + 1] = value]]
              ELSE g,
        index |-> index]

(***************************************************************************)
(* The checked layer: GridRead / GridWrite for every                       *)
(* GridReadUnchecked / GridWriteUnchecked + TrustedSizeGrid.               *)
(***************************************************************************)
\* GridRead::get
get(g, on, pos) ==
    IF contains(g, pos)
    THEN LET r == get_unchecked(g, pos)
         IN [some |-> TRUE, value |-> r.value,
             log |-> {Entry(on, "get_unchecked", pos, r.index)}]
    ELSE [some |-> FALSE, value |-> 0, log |-> {}]

\* set that stores before it reports the position as out of bounds
set_then_check(g, on, pos, value) ==
    LET r == set_unchecked(g, pos, value)
    IN IF contains(g, pos)
       THEN [ok |-> TRUE, g |-> r.g,
             log |-> {Entry(on, "set_unchecked", pos, r.index)}]
       ELSE [ok |-> FALSE, g |-> r.g, log |-> {}]

\* GridWrite::set
set(g, on, pos, value) ==
    IF contains(g, pos)
    THEN LET r == set_unchecked(g, pos, value)
         IN [ok |-> TRUE, g |-> r.g,
             log |-> {Entry(on, "set_unchecked", pos, r.index)}]
    ELSE [ok |-> FALSE, g |-> g, log |-> {}]

(***************************************************************************)
(* Construction.                                                           *)
(***************************************************************************)
\* GridBuf::with_buffer_unchecked: the debug assertion exists in debug builds only
with_buffer_unchecked(b, buffer, width, height, layout) ==
    IF b = "debug" /\ Len(buffer) # width * height
    THEN [kind |-> "Panic", g |-> NoGrid]
    ELSE [kind |-> "Ok", g |-> GridBuf(buffer, width, height, layout)]

\* with_buffer accepting every buffer that is large enough
with_buffer_at_least(b, buffer, width, height, layout) ==
    LET expected_size == width * height
    IN IF Len(buffer) < expected_size
       THEN [kind |-> "Err", g |-> NoGrid]
       ELSE with_buffer_unchecked(b, buffer, width, height, layout)

\* GridBuf::with_buffer
with_buffer(b, buffer, width, height, layout) ==
    LET expected_size == width * height
    IN IF Len(buffer) # expected_size
       THEN [kind |-> "Err", g |-> NoGrid]
       ELSE with_buffer_unchecked(b, buffer, width, height, layout)

\* from_buffer without its assertion: the height is rounded down
from_buffer_rounding_down(buffer, width, layout) ==
    IF width = 0 THEN [kind |-> "Panic", g |-> NoGrid]
    ELSE [kind |-> "Ok", g |-> GridBuf(buffer, width, Len(buffer) \div width, layout)]

\* GridBuf::from_buffer: the division panics when width is 0
from_buffer(buffer, width, layout) ==
    IF width = 0 THEN [kind |-> "Panic", g |-> NoGrid]
    ELSE LET height == Len(buffer) \div width
         IN IF height * width = Len(buffer)
            THEN [kind |-> "Ok", g |-> GridBuf(buffer, width, height, layout)]
            ELSE [kind |-> "Panic", g |-> NoGrid]

\* GridBuf<T, Vec<T>, L>::new_filled
new_filled(b, width, height, value, layout) ==
    LET size == width * height
        buffer == Filled(size, value)
    IN with_buffer_unchecked(b, buffer, width, height, layout)

\* GridBuf<T, [T; N], L>::new_filled
array_new_filled(b, N, width, height, value, layout) ==
    LET size == width * height
        buffer == Filled(N, value)
    IN IF ~(size <= N) THEN [kind |-> "Panic", g |-> NoGrid]
       ELSE with_buffer_unchecked(b, buffer, width, height, layout)

(***************************************************************************)
(* GridBuf: rectangle iteration and fills over unchecked rectangles.       *)
(***************************************************************************)
\* the log of a slice borrowed from the buffer: every index of the run
slice_log(on, a) == {Entry(on, "slice", NoPos, a.start + i - 1) : i \in 1..a.len}

\* iter_rect_unchecked whose aligned run starts at the beginning of the buffer
iter_rect_unchecked_from_start(g, on, bounds) ==
    LET aligned == slice_rect_aligned(g.layout, Len(g.buffer), g.width, g.height, bounds)
        pos == iter_pos(g.layout, bounds)
    IN IF aligned.some
       THEN [items |-> [i \in 1..aligned.len |-> g.buffer[i]],
             log |-> slice_log(on, aligned)]
       ELSE [items |-> [i \in 1..Len(pos) |-> get_unchecked(g, pos[i]).value],
             log |-> {Entry(on, "get_unchecked", pos[i], get_unchecked(g, pos[i]).index) :
                        i \in 1..Len(pos)}]

\* GridBuf::iter_rect_unchecked
iter_rect_unchecked(g, on, bounds) ==
    LET aligned == slice_rect_aligned(g.layout, Len(g.buffer), g.width, g.height, bounds)
        pos == iter_pos(g.layout, bounds)
    IN IF aligned.some
       THEN [items |-> [i \in 1..aligned.len |-> g.buffer[aligned.start + i]],
             log |-> slice_log(on, aligned)]
       ELSE [items |-> [i \in 1..Len(pos) |-> get_unchecked(g, pos[i]).value],
             log |-> {Entry(on, "get_unchecked", pos[i], get_unchecked(g, pos[i]).index) :
                        i \in 1..Len(pos)}]

\* for pos in positions { set_unchecked(pos, value) }, in order
RECURSIVE set_unchecked_each(_, _, _, _)
set_unchecked_each(g, on, writes, i) ==
    IF i > Len(writes) THEN [g |-> g, log |-> {}]
    ELSE LET r == set_unchecked(g, writes[i].pos, writes[i].value)
             rest == set_unchecked_each(r.g, on, writes, i + 1)
         IN [g |-> rest.g,
             log |-> rest.log \cup {Entry(on, "set_unchecked", writes[i].pos, r.index)}]

\* the caller's generator functions f(pos) of fill_rect
Gens == {"sum", "col"}

Gen(f, pos) == IF f = "sum" THEN pos.x + pos.y ELSE pos.x

\* GridWriteUnchecked::fill_rect_unchecked (default body, GridBuf does not override it)
fill_rect_unchecked(g, on, bounds, f) ==
    LET pos == iter_pos(g.layout, bounds)
    IN set_unchecked_each(g, on, [i \in 1..Len(pos) |-> [pos |-> pos[i], value |-> Gen(f, pos[i])]], 1)

\* GridBuf::fill_rect_iter_unchecked
fill_rect_iter_unchecked(g, on, bounds, iter) ==
    LET aligned == slice_rect_aligned(g.layout, Len(g.buffer), g.width, g.height, bounds)
        pos == iter_pos(g.layout, bounds)
        n == Min(Len(pos), Len(iter))
    IN IF aligned.some
       THEN [g |-> [g EXCEPT !.buffer =
                     [i \in 1..Len(g.buffer) |->
                        IF i > aligned.start /\ i <= aligned.start + Min(aligned.len, Len(iter))
                        THEN iter[i - aligned.start] ELSE g.buffer[i]]],
             log |-> slice_log(on, aligned)]
       ELSE set_unchecked_each(g, on, [i \in 1..n |-> [pos |-> pos[i], value |-> iter[i]]], 1)

\* fill_rect_solid_unchecked whose aligned run starts at the beginning of the buffer
fill_rect_solid_unchecked_from_start(g, on, bounds, value) ==
    LET aligned == slice_rect_aligned(g.layout, Len(g.buffer), g.width, g.height, bounds)
        pos == iter_pos(g.layout, bounds)
    IN IF aligned.some
       THEN [g |-> [g EXCEPT !.buffer =
                     [i \in 1..Len(g.buffer) |->
                        IF i <= aligned.len THEN value ELSE g.buffer[i]]],
             log |-> slice_log(on, aligned)]
       ELSE set_unchecked_each(g, on, [i \in 1..Len(pos) |-> [pos |-> pos[i], value |-> value]], 1)

\* GridBuf::fill_rect_solid_unchecked
fill_rect_solid_unchecked(g, on, bounds, value) ==
    LET aligned == slice_rect_aligned(g.layout, Len(g.buffer), g.width, g.height, bounds)
        pos == iter_pos(g.layout, bounds)
    IN IF aligned.some
       THEN [g |-> [g EXCEPT !.buffer =
                     [i \in 1..Len(g.buffer) |->
                        IF i > aligned.start /\ i <= aligned.start + aligned.len
                        THEN value ELSE g.buffer[i]]],
             log |-> slice_log(on, aligned)]
       ELSE set_unchecked_each(g, on, [i \in 1..Len(pos) |-> [pos |-> pos[i], value |-> value]], 1)

(***************************************************************************)
(* The checked layer: rectangles are clipped to the grid first.            *)
(***************************************************************************)
\* iter_rect handing the caller's rectangle on without clipping it
iter_rect_unclipped(g, on, bounds) == iter_rect_unchecked(g, on, bounds)

\* GridRead::iter_rect
iter_rect(g, on, bounds) ==
    LET size == to_rect(g.width, g.height)
        rect == intersect(bounds, size)
    IN iter_rect_unchecked(g, on, rect)

\* GridWrite::fill_rect
fill_rect(g, on, bounds, f) ==
    LET size == to_rect(g.width, g.height)
        rect == intersect(bounds, size)
    IN fill_rect_unchecked(g, on, rect, f)

\* fill_rect_iter handing the caller's rectangle on without clipping it
fill_rect_iter_unclipped(g, on, bounds, iter) == fill_rect_iter_unchecked(g, on, bounds, iter)

\* GridWrite::fill_rect_iter
fill_rect_iter(g, on, bounds, iter) ==
    LET size == to_rect(g.width, g.height)
        rect == intersect(bounds, size)
    IN fill_rect_iter_unchecked(g, on, rect, iter)

\* GridWrite::fill_rect_solid
fill_rect_solid(g, on, bounds, value) ==
    LET size == to_rect(g.width, g.height)
        rect == intersect(bounds, size)
    IN fill_rect_solid_unchecked(g, on, rect, value)

(***************************************************************************)
(* Region transfer: copy_rect, copy_rect_scaled, blit_rect,                *)
(* blit_rect_scaled.                                                       *)
(***************************************************************************)
\* the caller's blend functions blend(src, dst)
Blends == {"add"}

Blend(b, s, d) == IF b = "add" THEN s + d ELSE d

AddPos(p, q) == Pos(p.x + q.x, p.y + q.y)

\* for y in 0..h { for x in 0..w { ... } }: the offsets in loop order
loop_offsets(w, h) == iter_pos("RowMajor", from_ltwh(0, 0, w, h))

\* if let Some(value) = src.get(src_pos) { let _ = dst.set(dst_pos, value) }
RECURSIVE copy_each(_, _, _, _)
copy_each(s, d, pairs, i) ==
    IF i > Len(pairs) THEN [g |-> d, log |-> {}]
    ELSE LET value == get(s, "src", pairs[i].src_pos)
             w == IF value.some THEN set(d, "dst", pairs[i].dst_pos, value.value)
                  ELSE [ok |-> FALSE, g |-> d, log |-> {}]
             rest == copy_each(s, w.g, pairs, i + 1)
         IN [g |-> rest.g, log |-> value.log \cup w.log \cup rest.log]

\* if let Some(s) = src.get(src_pos) { if let Some(d) = dst.get(dst_pos) {
\*     let _ = dst.set(dst_pos, blend(s, d)) } }
RECURSIVE blit_each(_, _, _, _, _)
blit_each(s, d, pairs, i, blend) ==
    IF i > Len(pairs) THEN [g |-> d, log |-> {}]
    ELSE LET src_value == get(s, "src", pairs[i].src_pos)
             dst_value == IF src_value.some THEN get(d, "dst", pairs[i].dst_pos)
                          ELSE [some |-> FALSE, value |-> 0, log |-> {}]
             w == IF src_value.some /\ dst_value.some
                  THEN set(d, "dst", pairs[i].dst_pos, Blend(blend, src_value.value, dst_value.value))
                  ELSE [ok |-> FALSE, g |-> d, log |-> {}]
             rest == blit_each(s, w.g, pairs, i + 1, blend)
         IN [g |-> rest.g, log |-> src_value.log \cup dst_value.log \cup w.log \cup rest.log]

\* the (src_pos, dst_pos) pairs of the unscaled loops: offsets range over src_rect
unscaled_pairs(src_rect, dst_rect) ==
    LET offs == loop_offsets(src_rect.width, src_rect.height)
    IN [i \in 1..Len(offs) |->
          [src_pos |-> AddPos(top_left(src_rect), offs[i]),
           dst_pos |-> AddPos(top_left(dst_rect), offs[i])]]

\* the pairs of the scaled loops: offsets range over dst_rect, and the source
\* offset is x * src_w / dst_w (multiplication before division)
scaled_pairs(src_rect, dst_rect) ==
    LET offs == loop_offsets(dst_rect.width, dst_rect.height)
    IN [i \in 1..Len(offs) |->
          [src_pos |-> AddPos(top_left(src_rect),
                              Pos((offs[i].x * src_rect.width) \div dst_rect.width,
                                  (offs[i].y * src_rect.height) \div dst_rect.height)),
           dst_pos |-> AddPos(top_left(dst_rect), offs[i])]]

same_size(a, b) == a.width = b.width /\ a.height = b.height

\* copy_rect whose bulk path fills the destination at the source rectangle
copy_rect_onto_src_rect(s, src_rect, d, dst_rect) ==
    IF same_size(src_rect, dst_rect)
    THEN LET it == iter_rect(s, "src", src_rect)
             r == fill_rect_iter(d, "dst", src_rect, it.items)
         IN [g |-> r.g, log |-> it.log \cup r.log]
    ELSE copy_each(s, d, unscaled_pairs(src_rect, dst_rect), 1)

\* ops::copy_rect
copy_rect(s, src_rect, d, dst_rect) ==
    IF same_size(src_rect, dst_rect)
    THEN LET it == iter_rect(s, "src", src_rect)
             r == fill_rect_iter(d, "dst", dst_rect, it.items)
         IN [g |-> r.g, log |-> it.log \cup r.log]
    ELSE copy_each(s, d, unscaled_pairs(src_rect, dst_rect), 1)

\* ops::copy_rect_scaled
copy_rect_scaled(s, src_rect, d, dst_rect) ==
    IF same_size(src_rect, dst_rect)
    THEN copy_rect(s, src_rect, d, dst_rect)
    ELSE copy_each(s, d, scaled_pairs(src_rect, dst_rect), 1)

\* blit_rect that stores the source value without blending
blit_rect_overwrite(s, src_rect, d, dst_rect, blend) ==
    copy_each(s, d, unscaled_pairs(src_rect, dst_rect), 1)

\* ops::blit_rect
blit_rect(s, src_rect, d, dst_rect, blend) ==
    blit_each(s, d, unscaled_pairs(src_rect, dst_rect), 1, blend)

\* ops::blit_rect_scaled
blit_rect_scaled(s, src_rect, d, dst_rect, blend) ==
    blit_each(s, d, scaled_pairs(src_rect, dst_rect), 1, blend)

(***************************************************************************)
(* State.                                                                  *)
(*   dst    the grid under construction / mutation (NoGrid before)         *)
(*   src    the read-only source grid of the transfer operations           *)
(*   last   the last call: its name, arguments, result and dst before it   *)
(*   log    the unchecked calls and buffer indices used by the last call   *)
(*   shadow for every cell of dst, the value most recently stored there    *)
(*   steps  the number of operations applied to dst since construction     *)
(*   build  debug or release (debug assertions on or off)                  *)
(***************************************************************************)
\* the cells of a grid
Cells(g) == {Pos(x, y) : x \in 0..(g.width - 1), y \in 0..(g.height - 1)}

\* where the documentation places the cell (x, y) of a w x h grid in its buffer:
\* rows one after another (row-major) or columns one after another (column-major)
RefIndex(g, p) ==
    IF g.layout = "RowMajor" THEN p.y * g.width + p.x ELSE p.x * g.height + p.y

RefCells(g) == [p \in Cells(g) |-> g.buffer[RefIndex(g, p) + 1]]

\* column-major grids are instantiated square: there the stride passed to
\* pos_to_index (the width) is also the length of a column
Modelled(layout, width, height) == layout = "ColumnMajor" => width = height

MaxLen == MaxDim * MaxDim

Dims == 0..MaxDim

Vals == 0..MaxVal

\* position arguments: every cell of the largest grid, and one column / row beyond
Coords == 0..MaxDim

Rects == {from_ltwh(l, t, w, h) : l \in 0..MaxPos, t \in 0..MaxPos,
                                  w \in 0..MaxRect, h \in 0..MaxRect}

\* the values handed to fill_rect_iter
IterVals(n) == [i \in 1..n |-> 20 + i]

IterLens == 0..(MaxRect * MaxRect + 1)

\* the buffer <<11, 12, ...>> of a source grid
SrcBuffer(n) == [i \in 1..n |-> 10 + i]

\* the source grids: MaxDim x MaxDim, one per layout
SrcGrids == {from_buffer(SrcBuffer(MaxLen), MaxDim, l).g : l \in Layouts}

\* the grids the rectangle operations are applied to: every cell names its index
DstGrids ==
    {from_buffer(Iota(MaxLen), MaxDim, l).g : l \in Layouts}
    \cup {from_buffer(Iota(MaxDim * (MaxDim - 1)), MaxDim, "RowMajor").g,
          from_buffer(Iota(MaxDim * (MaxDim - 1)), MaxDim - 1, "RowMajor").g,
          from_buffer(<<>>, MaxDim, "RowMajor").g}

Call(op, args, ret, before) == [op |-> op, args |-> args, ret |-> ret, before |-> before]

Ready == dst.layout # "None"

\* a source grid and a destination grid, both built by from_buffer
Init ==
    /\ build = "release"
    /\ src \in SrcGrids
    /\ dst \in DstGrids
    /\ last = Call("init", <<>>, [kind |-> "Unit"], NoGrid)
    /\ log = {}
    /\ shadow = RefCells(dst)
    /\ steps = 0

\* nothing constructed yet, in a debug or a release build
InitCell ==
    /\ build \in Builds
    /\ src = NoGrid
    /\ dst = NoGrid
    /\ last = Call("init", <<>>, [kind |-> "Unit"], NoGrid)
    /\ log = {}
    /\ shadow = <<>>
    /\ steps = 0

\* the common effect of a constructor call
Constructed(op, args, r) ==
    /\ ~Ready
    /\ last.op = "init"
    /\ dst' = r.g
    /\ last' = Call(op, args, [kind |-> r.kind], dst)
    /\ log' = {}
    /\ shadow' = RefCells(r.g)
    /\ UNCHANGED <<src, steps, build>>

WithBuffer ==
    \E n \in 0..MaxLen, w \in Dims, h \in Dims, l \in Layouts :
        /\ Modelled(l, w, h)
        /\ Constructed("with_buffer",
                       [buffer |-> Iota(n), width |-> w, height |-> h, layout |-> l],
                       with_buffer(build, Iota(n), w, h, l))

FromBuffer ==
    \E n \in 0..MaxLen, w \in Dims, l \in Layouts :
        /\ l = "ColumnMajor" => n = w * w
        /\ Constructed("from_buffer",
                       [buffer |-> Iota(n), width |-> w, layout |-> l],
                       from_buffer(Iota(n), w, l))

NewFilled ==
    \E w \in Dims, h \in Dims, v \in Vals, l \in Layouts :
        /\ Modelled(l, w, h)
        /\ Constructed("new_filled",
                       [width |-> w, height |-> h, value |-> v, layout |-> l],
                       new_filled(build, w, h, v, l))

ArrayNewFilled ==
    \E N \in {MaxCap}, w \in Dims, h \in Dims, v \in Vals, l \in Layouts :
        /\ Modelled(l, w, h)
        /\ Constructed("array_new_filled",
                       [N |-> N, width |-> w, height |-> h, value |-> v, layout |-> l],
                       array_new_filled(build, N, w, h, v, l))

\* a single-cell operation may follow up to MaxOps - 1 others
\* get and set have no debug assertions: their sequences are explored on the
\* grids of the release build, which are a superset of the debug build's
CanCell == Ready /\ build = "release" /\ steps < MaxOps

\* a rectangle operation is applied to a freshly constructed grid and ends the run
CanRect == Ready /\ steps = 0

\* the common effect of a call that leaves the grid g behind
Applied(op, args, ret, g, l, cost) ==
    /\ dst' = g
    /\ last' = Call(op, args, ret, dst)
    /\ log' = l
    /\ steps' = steps + cost
    /\ UNCHANGED <<src, build>>

\* positions tried by get / set: the grid's cells and the ring just outside
NearGrid(x, y) == x <= dst.width /\ y <= dst.height

Get ==
    /\ CanCell
    /\ \E x \in Coords, y \in Coords :
            LET r == get(dst, "dst", Pos(x, y))
            IN /\ NearGrid(x, y)
               /\ Applied("get", [pos |-> Pos(x, y)],
                          [kind |-> IF r.some THEN "Some" ELSE "None", value |-> r.value],
                          dst, r.log, 1)
               /\ UNCHANGED shadow

Set ==
    /\ CanCell
    /\ \E x \in Coords, y \in Coords, v \in Vals :
            LET r == set(dst, "dst", Pos(x, y), v)
            IN /\ NearGrid(x, y)
               /\ Applied("set", [pos |-> Pos(x, y), value |-> v],
                          [kind |-> IF r.ok THEN "Ok" ELSE "Err"], r.g, r.log, 1)
               /\ shadow' = IF r.ok THEN [shadow EXCEPT ![Pos(x, y)] = v] ELSE shadow

IterRect ==
    /\ CanRect
    /\ \E rect \in Rects :
            LET r == iter_rect(dst, "dst", rect)
            IN /\ Applied("iter_rect", [rect |-> rect],
                          [kind |-> "Items", items |-> r.items], dst, r.log, MaxOps)
               /\ UNCHANGED shadow

FillRect ==
    /\ CanRect
    /\ \E rect \in Rects, f \in Gens :
            LET r == fill_rect(dst, "dst", rect, f)
            IN /\ Applied("fill_rect", [rect |-> rect, f |-> f], [kind |-> "Unit"], r.g, r.log, MaxOps)
               /\ shadow' = RefCells(r.g)

FillRectIter ==
    /\ CanRect
    /\ \E rect \in Rects, n \in IterLens :
            LET r == fill_rect_iter(dst, "dst", rect, IterVals(n))
            IN /\ Applied("fill_rect_iter", [rect |-> rect, iter |-> IterVals(n)],
                          [kind |-> "Unit"], r.g, r.log, MaxOps)
               /\ shadow' = RefCells(r.g)

FillRectSolid ==
    /\ CanRect
    /\ \E rect \in Rects, v \in Vals :
            LET r == fill_rect_solid(dst, "dst", rect, v)
            IN /\ Applied("fill_rect_solid", [rect |-> rect, value |-> v],
                          [kind |-> "Unit"], r.g, r.log, MaxOps)
               /\ shadow' = RefCells(r.g)

CopyRect ==
    /\ CanRect
    /\ \E src_rect \in Rects, dst_rect \in Rects :
            LET r == copy_rect(src, src_rect, dst, dst_rect)
            IN /\ Applied("copy_rect", [src_rect |-> src_rect, dst_rect |-> dst_rect],
                          [kind |-> "Unit"], r.g, r.log, MaxOps)
               /\ shadow' = RefCells(r.g)

CopyRectScaled ==
    /\ CanRect
    /\ \E src_rect \in Rects, dst_rect \in Rects :
            LET r == copy_rect_scaled(src, src_rect, dst, dst_rect)
            IN /\ Applied("copy_rect_scaled", [src_rect |-> src_rect, dst_rect |-> dst_rect],
                          [kind |-> "Unit"], r.g, r.log, MaxOps)
               /\ shadow' = RefCells(r.g)

BlitRect ==
    /\ CanRect
    /\ \E src_rect \in Rects, dst_rect \in Rects, b \in Blends :
            LET r == blit_rect(src, src_rect, dst, dst_rect, b)
            IN /\ Applied("blit_rect",
                          [src_rect |-> src_rect, dst_rect |-> dst_rect, blend |-> b],
                          [kind |-> "Unit"], r.g, r.log, MaxOps)
               /\ shadow' = RefCells(r.g)

BlitRectScaled ==
    /\ CanRect
    /\ \E src_rect \in Rects, dst_rect \in Rects, b \in Blends :
            LET r == blit_rect_scaled(src, src_rect, dst, dst_rect, b)
            IN /\ Applied("blit_rect_scaled",
                          [src_rect |-> src_rect, dst_rect |-> dst_rect, blend |-> b],
                          [kind |-> "Unit"], r.g, r.log, MaxOps)
               /\ shadow' = RefCells(r.g)

(***************************************************************************)
(* Specifications.                                                         *)
(***************************************************************************)
\* every checked operation, on grids built by from_buffer
Next ==
    \/ Get \/ Set
    \/ IterRect \/ FillRect \/ FillRectIter \/ FillRectSolid
    \/ CopyRect \/ CopyRectScaled \/ BlitRect \/ BlitRectScaled

Spec == Init /\ [][Next]_vars

\* every constructor, followed by single-cell reads and writes
CellNext ==
    \/ WithBuffer \/ FromBuffer \/ NewFilled \/ ArrayNewFilled
    \/ Get \/ Set

SpecCell == InitCell /\ [][CellNext]_vars

(***************************************************************************)
(* Reading a grid by position, as documented, without the grid's own       *)
(* index arithmetic.                                                       *)
(***************************************************************************)
Ref(g, p) == g.buffer[RefIndex(g, p) + 1]

InBounds(g, p) == p.x < g.width /\ p.y < g.height

AccurateSize(g) == Len(g.buffer) = g.width * g.height

\* the grid a log entry is about; no operation changes a grid's dimensions
LogGrid(e) == IF e.on = "src" THEN src ELSE last.before

C4_SetOutOfBoundsIsError ==
    last.op = "set" =>
        IF InBounds(last.before, last.args.pos)
        THEN last.ret.kind = "Ok"
        ELSE last.ret.kind = "Err" /\ dst = last.before

\* a rejected set just right of the last column of a non-empty grid
C4_Witness ==
    /\ last.op = "set"
    /\ last.ret.kind = "Err"
    /\ last.args.pos.x = dst.width
    /\ last.args.pos.y < dst.height
    /\ Len(dst.buffer) > 1

(***************************************************************************)
(* C5.  with_buffer returns the size-mismatch error exactly when the       *)
(* buffer's length differs from width * height; when it succeeds the grid  *)
(* reports the given width and height and holds the given buffer.          *)
(***************************************************************************)
C5_WithBufferChecksLength ==
    last.op = "with_buffer" =>
        /\ last.ret.kind = "Err" <=>
               Len(last.args.buffer) # last.args.width * last.args.height
        /\ last.ret.kind # "Err" =>
               /\ last.ret.kind = "Ok"
               /\ dst.width = last.args.width
               /\ dst.height = last.args.height
               /\ dst.buffer = last.args.buffer

\* a successful with_buffer of a non-empty buffer
C5_Witness ==
    /\ last.op = "with_buffer"
    /\ last.ret.kind = "Ok"
    /\ Len(dst.buffer) > 1
    /\ dst.width # dst.height

\* the size-mismatch error for a buffer that is too long
C5_WitnessErr ==
    /\ last.op = "with_buffer"
    /\ last.ret.kind = "Err"
    /\ Len(last.args.buffer) > last.args.width * last.args.height

(***************************************************************************)
(* C6.  Every grid built by a safe constructor, and every grid reached     *)
(* from it by set, has buffer length = width * height.                     *)
(***************************************************************************)
C6_DenseSizeInvariant ==
    Ready => Len(dst.buffer) = dst.width * dst.height

\* no operation changes the width, the height or the buffer's length
C6_DimensionsStable ==
    (Ready /\ last.before.layout # "None") =>
        /\ dst.width = last.before.width
        /\ dst.height = last.before.height
        /\ Len(dst.buffer) = Len(last.before.buffer)

(***************************************************************************)
(* Rectangles against grids, for the transfer operations.                  *)
(***************************************************************************)
\* the rectangle lies fully inside the grid
Inside(rect, g) == right(rect) <= g.width /\ bottom(rect) <= g.height

\* the position lies inside the rectangle
InRect(rect, p) ==
    /\ rect.left <= p.x /\ p.x < right(rect)
    /\ rect.top <= p.y /\ p.y < bottom(rect)

\* the source position that pairs with the destination position p
SrcPosFor(src_rect, dst_rect, p) ==
    Pos(src_rect.left + (p.x - dst_rect.left), src_rect.top + (p.y - dst_rect.top))

\* the offsets (i, j) that lie within both rectangles
SharedOffsets(src_rect, dst_rect) ==
    {Pos(i, j) : i \in 0..(Min(src_rect.width, dst_rect.width) - 1),
                 j \in 0..(Min(src_rect.height, dst_rect.height) - 1)}

\* after the last call, every destination cell of dst_rect holds the source
\* cell at the same offset of src_rect, and every other cell is as before
PositionWiseCopy ==
    \A p \in Cells(dst) :
        IF InRect(last.args.dst_rect, p)
        THEN Ref(dst, p) = Ref(src, SrcPosFor(last.args.src_rect, last.args.dst_rect, p))
        ELSE Ref(dst, p) = Ref(last.before, p)

C7_WitnessRow ==
    /\ last.op = "copy_rect"
    /\ src.layout = "RowMajor" /\ last.before.layout = "RowMajor"
    /\ last.before.width = 2 /\ last.before.height = 2
    /\ last.args.src_rect = from_ltwh(0, 1, 2, 1)
    /\ last.args.dst_rect = from_ltwh(0, 0, 2, 1)
    /\ dst # last.before

(***************************************************************************)
(* C8.  copy_rect with arbitrary rectangles: for every offset (i, j)       *)
(* within both rectangles, when the source position is inside the source   *)
(* grid and the destination position is inside the destination grid, the   *)
(* destination cell afterwards equals that source cell; when either is     *)
(* outside, the offset is skipped: the destination cell keeps its value    *)
(* and the pairing of the other offsets is not shifted.                    *)
(***************************************************************************)
C8_ClippedCopyKeepsPairing ==
    ( /\ last.op = "copy_rect"
      /\ src.layout = last.before.layout )
    => \A o \in SharedOffsets(last.args.src_rect, last.args.dst_rect) :
          LET sp == AddPos(top_left(last.args.src_rect), o)
              dp == AddPos(top_left(last.args.dst_rect), o)
          IN InBounds(dst, dp) =>
                IF InBounds(src, sp)
                THEN Ref(dst, dp) = Ref(src, sp)
                ELSE Ref(dst, dp) = Ref(last.before, dp)

(***************************************************************************)
(* C9.  copy_rect between rectangles of the same size, both fully inside   *)
(* their grids, is position-wise whatever the two grids' layouts are: a    *)
(* copy between a row-major and a column-major grid gives, read by         *)
(* position, what a copy between grids of one layout gives.                *)
(***************************************************************************)
C9_CrossLayoutCopyIsPositionWise ==
    ( /\ last.op = "copy_rect"
      /\ same_size(last.args.src_rect, last.args.dst_rect)
      /\ Inside(last.args.src_rect, src)
      /\ Inside(last.args.dst_rect, last.before)
      /\ src.layout # last.before.layout )
    => PositionWiseCopy

(***************************************************************************)
(* C10.  copy_rect and blit_rect change only destination cells inside      *)
(* dst_rect whose offset has a source position inside src_rect and inside  *)
(* the source grid; every other destination cell keeps its value, also     *)
(* when src_rect is larger than dst_rect.                                  *)
(***************************************************************************)
C10_WritesStayInsideDstRect ==
    ( /\ last.op \in {"copy_rect", "blit_rect"}
      /\ src.layout = last.before.layout )
    => \A p \in Cells(dst) :
          LET sp == SrcPosFor(last.args.src_rect, last.args.dst_rect, p)
          IN ( \/ ~InRect(last.args.dst_rect, p)
               \/ ~InRect(last.args.src_rect, sp)
               \/ ~InBounds(src, sp) )
             => Ref(dst, p) = Ref(last.before, p)

(***************************************************************************)
(* The four region transfers.                                              *)
(***************************************************************************)
Transfers == {"copy_rect", "copy_rect_scaled", "blit_rect", "blit_rect_scaled"}

\* the rectangle has no cells
IsEmpty(rect) == rect.width = 0 \/ rect.height = 0

(***************************************************************************)
(* C11.  When src_rect or dst_rect has zero width or zero height, each of  *)
(* copy_rect, copy_rect_scaled, blit_rect and blit_rect_scaled leaves      *)
(* every destination cell unchanged.                                       *)
(***************************************************************************)
C11_EmptyRectIsNoOp ==
    ( /\ last.op \in Transfers
      /\ IsEmpty(last.args.src_rect) \/ IsEmpty(last.args.dst_rect) )
    => dst = last.before

\* the part of C11 that holds: an empty dst_rect makes the scaled transfers
\* a no-op, and no transfer divides by zero
C11_ScaledEmptyDstIsNoOp ==
    ( /\ last.op \in {"copy_rect_scaled", "blit_rect_scaled"}
      /\ IsEmpty(last.args.dst_rect) )
    => dst = last.before

(***************************************************************************)
(* Nearest-neighbour scaling, as the claim states it.                      *)
(***************************************************************************)
\* the source offset for the destination offset o: floor(o * src / dst) per axis
ScaledOffset(src_rect, dst_rect, o) ==
    Pos((o.x * src_rect.width) \div dst_rect.width,
        (o.y * src_rect.height) \div dst_rect.height)

\* the offsets of a rectangle's cells
Offsets(rect) == {Pos(x, y) : x \in 0..(rect.width - 1), y \in 0..(rect.height - 1)}

\* after the last call every destination cell of dst_rect holds the source
\* cell at the scaled offset, and that offset lies inside src_rect
ScaledCopy ==
    \A o \in Offsets(last.args.dst_rect) :
        LET so == ScaledOffset(last.args.src_rect, last.args.dst_rect, o)
        IN /\ so.x < last.args.src_rect.width /\ so.y < last.args.src_rect.height
           /\ Ref(dst, AddPos(top_left(last.args.dst_rect), o))
                = Ref(src, AddPos(top_left(last.args.src_rect), so))

\* the preconditions of C12: both rectangles non-empty and fully in bounds
ScaledCopyCase ==
    /\ last.op = "copy_rect_scaled"
    /\ ~IsEmpty(last.args.src_rect) /\ ~IsEmpty(last.args.dst_rect)
    /\ Inside(last.args.src_rect, src)
    /\ Inside(last.args.dst_rect, last.before)

(***************************************************************************)
(* C12.  For non-empty rectangles fully in bounds, copy_rect_scaled sets   *)
(* dst[dst_rect.top_left + (x, y)] to                                      *)
(* src[src_rect.top_left + (x * src_w / dst_w, y * src_h / dst_h)] for     *)
(* every (x, y) of dst_rect, the source offset lying inside src_rect; for  *)
(* equal sizes the result is that of copy_rect.                            *)
(***************************************************************************)
C12_ScaledCopyIsNearestNeighbour ==
    ScaledCopyCase =>
        /\ ScaledCopy
        /\ same_size(last.args.src_rect, last.args.dst_rect) =>
              dst = copy_rect(src, last.args.src_rect, last.before, last.args.dst_rect).g

\* the part of C12 that holds: grids of one layout, or rectangles of
\* different sizes (the element loop)
C12_ScaledCopyOneLayoutOrResized ==
    ( /\ ScaledCopyCase
      /\ \/ src.layout = last.before.layout
         \/ ~same_size(last.args.src_rect, last.args.dst_rect) )
    => ScaledCopy

(***************************************************************************)
(* Blits.  blit_rect visits the offsets of src_rect, blit_rect_scaled the  *)
(* offsets of dst_rect; each offset names one destination position.        *)
(***************************************************************************)
\* the source positions of the visits that land on the destination position p
BlitSources(p) ==
    LET sr == last.args.src_rect
        dr == last.args.dst_rect
        o == Pos(p.x - dr.left, p.y - dr.top)
    IN IF o.x < 0 \/ o.y < 0 THEN {}
       ELSE IF last.op = "blit_rect"
       THEN IF o \in Offsets(sr) THEN {AddPos(top_left(sr), o)} ELSE {}
       ELSE IF o \in Offsets(dr) THEN {AddPos(top_left(sr), ScaledOffset(sr, dr, o))} ELSE {}

C13_WitnessScaled ==
    /\ last.op = "blit_rect_scaled"
    /\ last.args.src_rect.width = 1 /\ last.args.dst_rect.width = 2
    /\ Inside(last.args.src_rect, src)
    /\ Inside(last.args.dst_rect, last.before)
    /\ ~IsEmpty(last.args.dst_rect) /\ ~IsEmpty(last.args.src_rect)
    /\ dst # last.before

(***************************************************************************)
(* Rectangles clipped to a grid, by position and without the index         *)
(* arithmetic of the layouts.                                              *)
(***************************************************************************)
\* the cells of the grid that lie inside the rectangle
ClipCells(g, rect) == {p \in Cells(g) : InRect(rect, p)}

\* p comes before q in the layout's order: row-major walks a row left to
\* right and the rows top to bottom, column-major a column top to bottom and
\* the columns left to right
Before(layout, p, q) ==
    IF layout = "RowMajor"
    THEN p.y < q.y \/ (p.y = q.y /\ p.x < q.x)
    ELSE p.x < q.x \/ (p.x = q.x /\ p.y < q.y)

\* the place of p among the clipped cells, counted from 1 in layout order
Rank(g, rect, p) ==
    1 + Cardinality({q \in ClipCells(g, rect) : Before(g.layout, q, p)})

C15_AlignedRunEqualsWalk ==
    ( /\ last.op = "iter_rect"
      /\ dst.layout = "RowMajor"
      /\ Inside(last.args.rect, dst)
      /\ slice_rect_aligned(dst.layout, Len(dst.buffer), dst.width, dst.height,
                            last.args.rect).some )
    => LET pos == iter_pos(dst.layout, last.args.rect)
       IN last.ret.items = [i \in 1..Len(pos) |-> get_unchecked(dst, pos[i]).value]

\* the second row of a row-major grid of two columns, read as one run
C15_Witness ==
    /\ last.op = "iter_rect"
    /\ dst.layout = "RowMajor"
    /\ dst.width = 2 /\ dst.height = 2
    /\ last.args.rect = from_ltwh(0, 1, 2, 1)
    /\ \E e \in log : e.kind = "slice"
    /\ Len(last.ret.items) = 2

C16_WitnessPerPosition ==
    /\ last.op = "fill_rect_solid"
    /\ dst.layout = "RowMajor"
    /\ dst.width = 2 /\ dst.height = 2
    /\ last.args.rect = from_ltwh(1, 0, 2, 2)
    /\ \E e \in log : e.kind = "set_unchecked"

C17_WitnessSurplus ==
    /\ last.op = "fill_rect_iter"
    /\ dst.width = 2 /\ dst.height = 2
    /\ last.args.rect = from_ltwh(1, 1, 2, 2)
    /\ Len(last.args.iter) = 3
    /\ dst # last.before

(***************************************************************************)
(* GridBits: the bit-packed boolean grid.  A grid is again a record        *)
(* (buffer, width, height, layout); its buffer is a sequence of words of   *)
(* the packing type T, each an integer in 0 .. 2^MAX_WIDTH - 1.            *)
(***************************************************************************)
\* BitOps::MAX_WIDTH of the model's packing word (u8 has 8): words are kept
\* small so that grids of a few cells span several words
MAX_WIDTH == 2

RECURSIVE Pow2(_)
Pow2(n) == IF n = 0 THEN 1 ELSE 2 * Pow2(n - 1)

\* (byte.to_usize() >> bit_index) & 1
BitAt(byte, bit_index) == (byte \div Pow2(bit_index)) % 2

\* byte | T::from_usize(1 << bit_index)
BitOr(byte, bit_index) ==
    IF BitAt(byte, bit_index) = 1 THEN byte ELSE byte + Pow2(bit_index)

\* byte & !T::from_usize(1 << bit_index)
BitAndNot(byte, bit_index) ==
    IF BitAt(byte, bit_index) = 1 THEN byte - Pow2(bit_index) ELSE byte

\* byte & T::from_usize(1 << bit_index)
BitAnd(byte, bit_index) ==
    IF BitAt(byte, bit_index) = 1 THEN Pow2(bit_index) ELSE 0

\* usize::div_ceil
div_ceil(a, b) == (a + b - 1) \div b

\* GridBits::get
bits_get(g, pos) ==
    IF pos.x < g.width /\ pos.y < g.height
    THEN LET index == pos_to_index(g.layout, pos, g.width)
             byte_index == index \div MAX_WIDTH
             bit_index == index % MAX_WIDTH
         IN IF byte_index < Len(g.buffer)
            THEN [some |-> TRUE, value |-> BitAt(g.buffer[byte_index + 1], bit_index) # 0]
            ELSE [some |-> FALSE, value |-> FALSE]
    ELSE [some |-> FALSE, value |-> FALSE]

\* GridBits::set whose clearing branch masks with the bit instead of its inverse
bits_set_clear_keeps_bit(g, pos, value) ==
    IF pos.x < g.width /\ pos.y < g.height
    THEN LET index == pos_to_index(g.layout, pos, g.width)
             byte_index == index \div MAX_WIDTH
             bit_index == index % MAX_WIDTH
         IN IF byte_index < Len(g.buffer)
            THEN [some |-> TRUE,
                  g |-> [g EXCEPT !.buffer[byte_index + 1] =
                           IF value THEN BitOr(@, bit_index) ELSE BitAnd(@, bit_index)]]
            ELSE [some |-> FALSE, g |-> g]
    ELSE [some |-> FALSE, g |-> g]

\* GridBits::set
bits_set(g, pos, value) ==
    IF pos.x < g.width /\ pos.y < g.height
    THEN LET index == pos_to_index(g.layout, pos, g.width)
             byte_index == index \div MAX_WIDTH
             bit_index == index % MAX_WIDTH
         IN IF byte_index < Len(g.buffer)
            THEN [some |-> TRUE,
                  g |-> [g EXCEPT !.buffer[byte_index + 1] =
                           IF value THEN BitOr(@, bit_index) ELSE BitAndNot(@, bit_index)]]
            ELSE [some |-> FALSE, g |-> g]
    ELSE [some |-> FALSE, g |-> g]

\* GridBits::with_buffer_unchecked: the debug assertion exists in debug builds only
bits_with_buffer_unchecked(b, buffer, width, height, layout) ==
    IF b = "debug" /\ Len(buffer) * MAX_WIDTH # width * height
    THEN [kind |-> "Panic", g |-> NoGrid]
    ELSE [kind |-> "Ok", g |-> GridBuf(buffer, width, height, layout)]

\* GridBits::with_buffer
bits_with_buffer(b, buffer, width, height, layout) ==
    LET expected_size == width * height
    IN IF Len(buffer) * MAX_WIDTH < expected_size \/ width > MAX_WIDTH
       THEN [kind |-> "Err", g |-> NoGrid]
       ELSE bits_with_buffer_unchecked(b, buffer, width, height, layout)

\* for i in 0..size { if value { buffer[i / MAX_WIDTH] |= 1 << (i % MAX_WIDTH) } }
RECURSIVE fill_bits(_, _, _, _)
fill_bits(buffer, i, size, value) ==
    IF i >= size THEN buffer
    ELSE fill_bits(IF value
                   THEN [buffer EXCEPT ![(i \div MAX_WIDTH) + 1] = BitOr(@, i % MAX_WIDTH)]
                   ELSE buffer,
                   i + 1, size, value)

\* GridBits<T, Vec<T>, L>::new_filled
bits_new_filled(b, width, height, value, layout) ==
    LET size == width * height
        buffer == Filled(div_ceil(size, MAX_WIDTH), 0)
    IN bits_with_buffer_unchecked(b, fill_bits(buffer, 0, size, value), width, height, layout)

\* GridBits<T, [T; N], L>::new_filled
bits_array_new_filled(b, N, width, height, value, layout) ==
    LET size == width * height
    IN IF ~(div_ceil(size, MAX_WIDTH) <= N) THEN [kind |-> "Panic", g |-> NoGrid]
       ELSE bits_with_buffer_unchecked(b, fill_bits(Filled(N, 0), 0, size, value),
                                       width, height, layout)

(***************************************************************************)
(* The bit-packed grid as a state machine.  `shadow` holds, by position,   *)
(* the bit each cell got at construction or from its latest successful     *)
(* set.                                                                    *)
(***************************************************************************)
\* the bit the documentation places at position p: bit (index % bits_per_word)
\* of word (index / bits_per_word), index being the cell's linear index
RefBit(g, p) ==
    BitAt(g.buffer[(RefIndex(g, p) \div MAX_WIDTH) + 1], RefIndex(g, p) % MAX_WIDTH) # 0

\* the cells whose word exists in the buffer
RefBits(g) ==
    [p \in {q \in Cells(g) : RefIndex(g, q) \div MAX_WIDTH < Len(g.buffer)} |-> RefBit(g, p)]

\* word k of a buffer with a mixed bit pattern
PatternWords(n) == [k \in 1..n |-> k % Pow2(MAX_WIDTH)]

\* the shapes of the grids the set / get sequences start from: full words,
\* a partially used final word, and a square column-major grid
BitShapes ==
    { <<MAX_WIDTH, MaxDim, "RowMajor">>,
      <<MAX_WIDTH - 1, MaxDim + 1, "RowMajor">>,
      <<Min(MaxDim, MAX_WIDTH), Min(MaxDim, MAX_WIDTH), "ColumnMajor">> }

\* the grid of a shape, built by with_buffer from all-zero or patterned words
BitGridOf(sh, patterned) ==
    LET n == div_ceil(sh[1] * sh[2], MAX_WIDTH)
        words == IF patterned THEN PatternWords(n) ELSE Filled(n, 0)
    IN bits_with_buffer("release", words, sh[1], sh[2], sh[3]).g

BitGrids == {BitGridOf(sh, patterned) : sh \in BitShapes, patterned \in BOOLEAN}

InitBits ==
    /\ build = "release"
    /\ src = NoGrid
    /\ dst \in BitGrids
    /\ last = Call("init", <<>>, [kind |-> "Unit"], NoGrid)
    /\ log = {}
    /\ shadow = RefBits(dst)
    /\ steps = 0

\* a constructor of the bit-packed grid returns r
BitsConstructed(op, args, r) ==
    /\ ~Ready
    /\ last.op = "init"
    /\ dst' = r.g
    /\ last' = Call(op, args, [kind |-> r.kind], dst)
    /\ log' = {}
    /\ shadow' = RefBits(r.g)
    /\ UNCHANGED <<src, steps, build>>

\* buffers handed to with_buffer: up to MaxWords words
MaxWords == div_ceil((MAX_WIDTH + 1) * MaxDim, MAX_WIDTH) + 1

BitWidths == 0..(MAX_WIDTH + 1)

BitsWithBuffer ==
    \E n \in 0..MaxWords, w \in BitWidths, h \in Dims, l \in Layouts :
        /\ Modelled(l, w, h)
        /\ BitsConstructed("bits_with_buffer",
                           [buffer |-> PatternWords(n), width |-> w, height |-> h, layout |-> l],
                           bits_with_buffer(build, PatternWords(n), w, h, l))

BitsNewFilled ==
    \E w \in BitWidths, h \in Dims, v \in BOOLEAN, l \in Layouts :
        /\ Modelled(l, w, h)
        /\ BitsConstructed("bits_new_filled",
                           [width |-> w, height |-> h, value |-> v, layout |-> l],
                           bits_new_filled(build, w, h, v, l))

BitsArrayNewFilled ==
    \E N \in {MaxCap}, w \in BitWidths, h \in Dims, v \in BOOLEAN, l \in Layouts :
        /\ Modelled(l, w, h)
        /\ BitsConstructed("bits_array_new_filled",
                           [N |-> N, width |-> w, height |-> h, value |-> v, layout |-> l],
                           bits_array_new_filled(build, N, w, h, v, l))

\* positions tried on a grid: its cells and the ring just outside them
Around(g) == {Pos(x, y) : x \in 0..g.width, y \in 0..g.height}

BitGet ==
    /\ CanCell
    /\ \E p \in Around(dst) :
          LET r == bits_get(dst, p)
          IN /\ Applied("bits_get", [pos |-> p],
                        [kind |-> IF r.some THEN "Some" ELSE "None", value |-> r.value],
                        dst, {}, 1)
             /\ UNCHANGED shadow

BitSet ==
    /\ CanCell
    /\ \E p \in Around(dst), v \in BOOLEAN :
          LET r == bits_set(dst, p, v)
          IN /\ Applied("bits_set", [pos |-> p, value |-> v],
                        [kind |-> IF r.some THEN "Some" ELSE "None"],
                        r.g, {}, 1)
             /\ shadow' = IF r.some THEN [shadow EXCEPT ![p] = v] ELSE shadow

\* GridBits::iter: every word of the buffer, each expanded into its MAX_WIDTH bits
bits_iter(g) ==
    [i \in 1..(Len(g.buffer) * MAX_WIDTH) |->
        BitAt(g.buffer[((i - 1) \div MAX_WIDTH) + 1], (i - 1) % MAX_WIDTH) # 0]

BitIter ==
    /\ CanCell
    /\ Applied("bits_iter", <<>>, [kind |-> "Items", items |-> bits_iter(dst)], dst, {}, 1)
    /\ UNCHANGED shadow

BitsNext == BitGet \/ BitSet \/ BitIter

SpecBits == InitBits /\ [][BitsNext]_vars

BitsNewNext == BitsWithBuffer \/ BitsNewFilled \/ BitsArrayNewFilled \/ BitGet

SpecBitsNew == InitCell /\ [][BitsNewNext]_vars

C18_WitnessOutOfBounds ==
    /\ last.op = "bits_set"
    /\ last.ret.kind = "None"
    /\ last.args.pos.x = dst.width
    /\ last.args.pos.y < dst.height

(***************************************************************************)
(* C19.  Validated construction of a bit-packed grid from a buffer         *)
(* succeeds exactly when buffer.len() * bits_per_word >= width * height    *)
(* (the final word may be partially used) and returns an error otherwise.  *)
(***************************************************************************)
C19_BitsWithBufferAcceptsRoundedUp ==
    last.op = "bits_with_buffer" =>
        IF Len(last.args.buffer) * MAX_WIDTH >= last.args.width * last.args.height
        THEN last.ret.kind = "Ok"
        ELSE last.ret.kind = "Err"

\* the part of C19 that holds: a buffer that cannot hold width * height bits
\* is rejected with an error, and one of exactly width * height bits is
\* accepted when the width does not exceed MAX_WIDTH
C19_BitsWithBufferRejectsShort ==
    last.op = "bits_with_buffer" =>
        /\ Len(last.args.buffer) * MAX_WIDTH < last.args.width * last.args.height
              => last.ret.kind = "Err"
        /\ ( /\ Len(last.args.buffer) * MAX_WIDTH = last.args.width * last.args.height
             /\ last.args.width <= MAX_WIDTH )
              => last.ret.kind = "Ok"

(***************************************************************************)
(* C20.  new / new_filled of a bit-packed grid succeed for every width and *)
(* height, allocate ceil(width * height / bits_per_word) words, also when  *)
(* width * height is not a multiple of bits_per_word, and give a grid in   *)
(* which get(p) is Some(value) for every position inside the grid.         *)
(***************************************************************************)
C20_BitsNewFilledAllCells ==
    last.op = "bits_new_filled" =>
        /\ last.ret.kind = "Ok"
        /\ Len(dst.buffer) = div_ceil(last.args.width * last.args.height, MAX_WIDTH)
        /\ dst.width = last.args.width /\ dst.height = last.args.height
        /\ \A p \in Cells(dst) :
               bits_get(dst, p).some /\ bits_get(dst, p).value = last.args.value

\* the part of C20 that holds: whenever the constructor returns, the grid
\* has the words and the cells the claim states
C20_BitsNewFilledWhenReturned ==
    (last.op = "bits_new_filled" /\ last.ret.kind = "Ok") =>
        /\ Len(dst.buffer) = div_ceil(last.args.width * last.args.height, MAX_WIDTH)
        /\ dst.width = last.args.width /\ dst.height = last.args.height
        /\ \A p \in Cells(dst) :
               bits_get(dst, p).some /\ bits_get(dst, p).value = last.args.value

(***************************************************************************)
(* C21.  The bits of the backing words at linear index >= width * height   *)
(* are unreachable through the bit-packed grid: iter yields exactly the    *)
(* width * height cells in layout order, and set never modifies a bit of   *)
(* the unused tail.                                                        *)
(***************************************************************************)
C21_BitsTailUnreachable ==
    /\ last.op = "bits_iter" =>
          /\ Len(last.ret.items) = dst.width * dst.height
          /\ \A p \in Cells(dst) : last.ret.items[RefIndex(dst, p) + 1] = shadow[p]
    /\ last.op = "bits_set" =>
          \A i \in (dst.width * dst.height)..(Len(dst.buffer) * MAX_WIDTH - 1) :
              BitAt(dst.buffer[(i \div MAX_WIDTH) + 1], i % MAX_WIDTH)
                = BitAt(last.before.buffer[(i \div MAX_WIDTH) + 1], i % MAX_WIDTH)

\* the part of C21 that holds: set leaves the tail alone, and the first
\* width * height items of iter are the cells in layout order
C21_BitsTailNotWritten ==
    /\ last.op = "bits_iter" =>
          /\ Len(last.ret.items) >= dst.width * dst.height
          /\ \A p \in Cells(dst) : last.ret.items[RefIndex(dst, p) + 1] = shadow[p]
    /\ last.op = "bits_set" =>
          \A i \in (dst.width * dst.height)..(Len(dst.buffer) * MAX_WIDTH - 1) :
              BitAt(dst.buffer[(i \div MAX_WIDTH) + 1], i % MAX_WIDTH)
                = BitAt(last.before.buffer[(i \div MAX_WIDTH) + 1], i % MAX_WIDTH)

(***************************************************************************)
(* The layouts as pure functions: one conversion per run, for every grid   *)
(* size (square or not) and every position or index inside the grid.       *)
(***************************************************************************)
LayoutDims == 1..(MaxDim + 2)

To1d ==
    /\ last.op = "init"
    /\ \E layout \in Layouts, width \in LayoutDims, height \in LayoutDims :
        \E x \in 0..(width - 1), y \in 0..(height - 1) :
            last' = Call("to_1d",
                         [layout |-> layout, width |-> width, height |-> height, pos |-> Pos(x, y)],
                         [kind |-> "Index", index |-> to_1d(layout, Pos(x, y), width)], NoGrid)
    /\ UNCHANGED <<dst, src, log, shadow, steps, build>>

To2d ==
    /\ last.op = "init"
    /\ \E layout \in Layouts, width \in LayoutDims, height \in LayoutDims :
        \E index \in 0..(width * height - 1) :
            last' = Call("to_2d",
                         [layout |-> layout, width |-> width, height |-> height, index |-> index],
                         [kind |-> "Pos", pos |-> to_2d(layout, index, width)], NoGrid)
    /\ UNCHANGED <<dst, src, log, shadow, steps, build>>

LayoutNext == To1d \/ To2d

SpecLayout == InitCell /\ [][LayoutNext]_vars

\* the positions of a width x height grid
GridPositions(width, height) == {Pos(x, y) : x \in 0..(width - 1), y \in 0..(height - 1)}

(***************************************************************************)
(* C22.  For the row-major and the column-major layout and every grid size *)
(* (square or not): to_2d(to_1d(p, width), width) = p for every position   *)
(* inside the grid, no two positions of the grid share an index, no index  *)
(* is >= width * height, and for row-major the index is y * width + x.     *)
(***************************************************************************)
C22_LinearIndexIsBijection ==
    last.op = "to_1d" =>
        LET a == last.args
            i == last.ret.index
        IN  /\ to_2d(a.layout, i, a.width) = a.pos
            /\ i < a.width * a.height
            /\ \A q \in GridPositions(a.width, a.height) :
                   q # a.pos => to_1d(a.layout, q, a.width) # i
            /\ a.layout = "RowMajor" => i = a.pos.y * a.width + a.pos.x

\* the part of C22 that holds: row-major grids of every size, and square
\* column-major grids
C22_RowMajorOrSquareIsBijection ==
    last.op = "to_1d" /\ (last.args.layout = "RowMajor" \/ last.args.width = last.args.height) =>
        LET a == last.args
            i == last.ret.index
        IN  /\ to_2d(a.layout, i, a.width) = a.pos
            /\ i < a.width * a.height
            /\ \A q \in GridPositions(a.width, a.height) :
                   q # a.pos => to_1d(a.layout, q, a.width) # i
            /\ a.layout = "RowMajor" => i = a.pos.y * a.width + a.pos.x

\* n is an exact multiple of width
MultipleOf(n, width) == \E k \in 0..n : k * width = n

(***************************************************************************)
(* C23.  from_buffer(buffer, width) either panics, constructing no grid,   *)
(* or returns a grid with the given width and height = buffer.len() /      *)
(* width such that width * height = buffer.len(); it panics whenever       *)
(* buffer.len() is not an exact multiple of width.                         *)
(***************************************************************************)
C23_FromBufferExactMultiple ==
    last.op = "from_buffer" =>
        LET len == Len(last.args.buffer)
            width == last.args.width
        IN  /\ \/ last.ret.kind = "Panic" /\ dst = NoGrid
               \/ /\ last.ret.kind = "Ok"
                  /\ dst.buffer = last.args.buffer
                  /\ dst.width = width
                  /\ dst.height = len \div width
                  /\ dst.width * dst.height = len
            /\ ~MultipleOf(len, width) => last.ret.kind = "Panic"

\* a grid of more than one row was returned
C23_Witness ==
    /\ last.op = "from_buffer" /\ last.ret.kind = "Ok"
    /\ dst.width > 1 /\ dst.height > 1

\* a buffer whose length is not a multiple of a non-zero width was refused
C23_WitnessPanic ==
    /\ last.op = "from_buffer" /\ last.ret.kind = "Panic"
    /\ last.args.width > 1 /\ Len(last.args.buffer) > last.args.width

(***************************************************************************)
(* The Z-order (Morton) layout of examples/z-order-layout.rs.  A u32 is    *)
(* the set of its one bits, so that all 32 bits are kept.                  *)
(***************************************************************************)
\* bits of a u32
WordBits == 0..31

\* bits of a u16
HalfBits == 0..15

\* x << n on a u32: the bits shifted out are lost
Shl(x, n) == {b + n : b \in x} \cap WordBits

\* x >> n
Shr(x, n) == {b - n : b \in {c \in x : c >= n}}

\* the masks 0x00ff_00ff, 0x0f0f_0f0f, 0x3333_3333 and 0x5555_5555: the
\* lower half of every group of 2 * n bits
LowHalves(n) == {b \in WordBits : (b \div n) % 2 = 0}

\* u16 -> u32
IntoBits(n) == {b \in HalfBits : BitAt(n, b) = 1}

\* u32 -> usize, for words below 2^16
RECURSIVE FromBits(_)
FromBits(x) ==
    IF x = {} THEN 0
    ELSE LET b == CHOOSE c \in x : TRUE IN Pow2(b) + FromBits(x \ {b})

\* spread_bits without its last step
spread_bits_by_pairs(n) ==
    LET x1 == (n \cup Shl(n, 8)) \cap LowHalves(8)
        x2 == (x1 \cup Shl(x1, 4)) \cap LowHalves(4)
    IN  (x2 \cup Shl(x2, 2)) \cap LowHalves(2)

spread_bits(n) ==
    LET x1 == (n \cup Shl(n, 8)) \cap LowHalves(8)
        x2 == (x1 \cup Shl(x1, 4)) \cap LowHalves(4)
        x3 == (x2 \cup Shl(x2, 2)) \cap LowHalves(2)
    IN  (x3 \cup Shl(x3, 1)) \cap LowHalves(1)

unspread_bits(n) ==
    LET x0 == n \cap LowHalves(1)
        x1 == (x0 \cup Shr(x0, 1)) \cap LowHalves(2)
        x2 == (x1 \cup Shr(x1, 2)) \cap LowHalves(4)
        x3 == (x2 \cup Shr(x2, 4)) \cap LowHalves(8)
    IN  (x3 \cup Shr(x3, 8)) \cap HalfBits

\* ZOrderCurve::pos_to_index: a coordinate that does not fit in a u16 panics
z_pos_to_index(pos) ==
    IF pos.x >= Pow2(16) \/ pos.y >= Pow2(16)
    THEN [kind |-> "Panic", index |-> {}]
    ELSE LET x == spread_bits(IntoBits(pos.x))
             y == spread_bits(IntoBits(pos.y))
         IN [kind |-> "Ok", index |-> x \cup Shl(y, 1)]

\* ZOrderCurve::index_to_pos, on an index that fits in a u32
z_index_to_pos(index) ==
    Pos(FromBits(unspread_bits(index)), FromBits(unspread_bits(Shr(index, 1))))

\* Rect::bottom_right: the exclusive corner
bottom_right(rect) == Pos(right(rect), bottom(rect))

\* ZOrderCurve::slice_rect_aligned over a slice of buflen elements
z_slice_rect_aligned(buflen, rect) ==
    LET start == FromBits(z_pos_to_index(top_left(rect)).index)
        end == FromBits(z_pos_to_index(bottom_right(rect)).index)
    IN IF start >= buflen \/ end > buflen
       THEN [some |-> FALSE, start |-> 0, len |-> 0]
       ELSE [some |-> TRUE, start |-> start, len |-> end - start]

\* coordinates tried: the small ones and the edges of the u8 and u16 ranges
ZCoords == (0..(MaxPos + 2)) \cup {Pow2(8) - 1, Pow2(8), Pow2(15), Pow2(16) - 1, Pow2(16)}

ZPosToIndex ==
    /\ last.op = "init"
    /\ \E x \in ZCoords, y \in ZCoords :
        LET r == z_pos_to_index(Pos(x, y))
        IN last' = Call("z_pos_to_index", [pos |-> Pos(x, y)],
                        [kind |-> r.kind, index |-> r.index], NoGrid)
    /\ UNCHANGED <<dst, src, log, shadow, steps, build>>

ZIndexToPos ==
    /\ last.op = "init"
    /\ \E x \in ZCoords, y \in ZCoords :
        /\ z_pos_to_index(Pos(x, y)).kind = "Ok"
        /\ LET index == z_pos_to_index(Pos(x, y)).index
           IN last' = Call("z_index_to_pos", [index |-> index],
                           [kind |-> "Pos", pos |-> z_index_to_pos(index)], NoGrid)
    /\ UNCHANGED <<dst, src, log, shadow, steps, build>>

\* rectangles inside a grid of up to (MaxDim + 2) squared cells
ZSliceRectAligned ==
    /\ last.op = "init"
    /\ \E width \in LayoutDims, height \in LayoutDims :
        \E l \in 0..(width - 1), t \in 0..(height - 1) :
            \E w \in 1..(width - l), h \in 1..(height - t) :
                LET r == z_slice_rect_aligned(width * height, from_ltwh(l, t, w, h))
                IN last' = Call("z_slice_rect_aligned",
                                [width |-> width, height |-> height, rect |-> from_ltwh(l, t, w, h)],
                                [kind |-> "Slice", some |-> r.some, start |-> r.start, len |-> r.len],
                                NoGrid)
    /\ UNCHANGED <<dst, src, log, shadow, steps, build>>

ZOrderNext == ZPosToIndex \/ ZIndexToPos \/ ZSliceRectAligned

SpecZOrder == InitCell /\ [][ZOrderNext]_vars

(***************************************************************************)
(* C24.  The Z-order index interleaves the bits of the coordinates, bit k  *)
(* of x at index bit 2k and bit k of y at index bit 2k + 1;                *)
(* index_to_pos(pos_to_index(p)) = p for every position whose coordinates  *)
(* fit in 16 bits, and distinct positions get distinct indices.            *)
(***************************************************************************)
C24_ZOrderInterleavesBits ==
    last.op = "z_pos_to_index" /\ last.args.pos.x < Pow2(16) /\ last.args.pos.y < Pow2(16) =>
        LET p == last.args.pos
            index == last.ret.index
        IN  /\ last.ret.kind = "Ok"
            /\ index \subseteq WordBits
            /\ \A k \in HalfBits :
                   /\ (2 * k \in index) <=> (BitAt(p.x, k) = 1)
                   /\ (2 * k + 1 \in index) <=> (BitAt(p.y, k) = 1)
            /\ z_index_to_pos(index) = p
            /\ \A x \in ZCoords, y \in ZCoords :
                   z_pos_to_index(Pos(x, y)).kind = "Ok" /\ Pos(x, y) # p
                       => z_pos_to_index(Pos(x, y)).index # index

\* two different coordinates that use the upper byte of the u16
C24_Witness ==
    /\ last.op = "z_pos_to_index" /\ last.ret.kind = "Ok"
    /\ last.args.pos.x = Pow2(16) - 1 /\ last.args.pos.y = Pow2(15)

\* the buffer indices of the cells of rect under the Z-order layout
ZRectIndices(rect) ==
    {FromBits(z_pos_to_index(Pos(x, y)).index) :
        x \in rect.left..(right(rect) - 1), y \in rect.top..(bottom(rect) - 1)}

(***************************************************************************)
(* C26.  Under the Z-order layout slice_rect_aligned returns None for      *)
(* every rectangle other than a single cell or the whole grid, and a       *)
(* returned slice holds exactly the rectangle's width * height cells.      *)
(***************************************************************************)
C26_ZOrderSliceOnlyWhenExact ==
    last.op = "z_slice_rect_aligned" /\ last.ret.some =>
        LET a == last.args
        IN  /\ \/ a.rect.width = 1 /\ a.rect.height = 1
               \/ a.rect = to_rect(a.width, a.height)
            /\ last.ret.len = a.rect.width * a.rect.height
            /\ last.ret.start..(last.ret.start + last.ret.len - 1) = ZRectIndices(a.rect)

(***************************************************************************)
(* Construction with machine arithmetic: usize is UsizeBits wide, a        *)
(* multiplication that leaves the range panics in a debug build and wraps  *)
(* in a release build.                                                     *)
(***************************************************************************)
\* width of usize in the narrow model
UsizeBits == 3

UsizeRange == 0..(Pow2(UsizeBits) - 1)

\* a * b on usize
usize_mul(b, x, y) ==
    IF x * y >= Pow2(UsizeBits)
    THEN IF b = "debug" THEN [kind |-> "Panic", value |-> 0]
         ELSE [kind |-> "Ok", value |-> (x * y) % Pow2(UsizeBits)]
    ELSE [kind |-> "Ok", value |-> x * y]

\* GridBuf::with_buffer_unchecked on usize
with_buffer_unchecked_usize(b, buffer, width, height, layout) ==
    IF b = "debug" /\ (usize_mul(b, width, height).kind = "Panic"
                        \/ Len(buffer) # usize_mul(b, width, height).value)
    THEN [kind |-> "Panic", g |-> NoGrid]
    ELSE [kind |-> "Ok", g |-> GridBuf(buffer, width, height, layout)]

\* GridBuf::with_buffer on usize
with_buffer_usize(b, buffer, width, height, layout) ==
    LET expected_size == usize_mul(b, width, height)
    IN IF expected_size.kind = "Panic" THEN [kind |-> "Panic", g |-> NoGrid]
       ELSE IF Len(buffer) # expected_size.value
            THEN [kind |-> "Err", g |-> NoGrid]
            ELSE with_buffer_unchecked_usize(b, buffer, width, height, layout)

\* GridBuf<T, Vec<T>, L>::new_filled on usize
new_filled_usize(b, width, height, value, layout) ==
    LET size == usize_mul(b, width, height)
    IN IF size.kind = "Panic" THEN [kind |-> "Panic", g |-> NoGrid]
       ELSE [kind |-> "Ok", g |-> GridBuf(Filled(size.value, value), width, height, layout)]

\* the effect of a constructor call in the narrow model
ConstructedUsize(op, args, r) ==
    /\ ~Ready
    /\ last.op = "init"
    /\ dst' = r.g
    /\ last' = Call(op, args, [kind |-> r.kind], dst)
    /\ UNCHANGED <<src, log, shadow, steps, build>>

WithBufferUsize ==
    \E n \in 0..MaxLen, w \in UsizeRange, h \in UsizeRange :
        ConstructedUsize("with_buffer_usize",
                    [buffer |-> Iota(n), width |-> w, height |-> h, layout |-> "RowMajor"],
                    with_buffer_usize(build, Iota(n), w, h, "RowMajor"))

NewFilledUsize ==
    \E w \in UsizeRange, h \in UsizeRange, v \in Vals :
        ConstructedUsize("new_filled_usize",
                    [width |-> w, height |-> h, value |-> v, layout |-> "RowMajor"],
                    new_filled_usize(build, w, h, v, "RowMajor"))

UsizeNext == WithBufferUsize \/ NewFilledUsize

SpecUsize == InitCell /\ [][UsizeNext]_vars

(***************************************************************************)
(* C25.  Grid construction never silently wraps width * height: when the   *)
(* true product leaves the machine word range, with_buffer and new_filled  *)
(* return no grid whose buffer length is the wrapped product, so no grid   *)
(* has more in-bounds positions than buffer elements.                      *)
(***************************************************************************)
C25_ConstructionNeverWraps ==
    last.op \in {"with_buffer_usize", "new_filled_usize"} /\ last.ret.kind = "Ok" =>
        /\ last.args.width * last.args.height < Pow2(UsizeBits)
        /\ dst.width * dst.height <= Len(dst.buffer)

\* the part of C25 that holds: a debug build, and every product within range
C25_NoWrapInDebugOrInRange ==
    /\ last.op \in {"with_buffer_usize", "new_filled_usize"}
    /\ last.ret.kind = "Ok"
    /\ build = "debug" \/ last.args.width * last.args.height < Pow2(UsizeBits)
    => /\ last.args.width * last.args.height < Pow2(UsizeBits)
       /\ dst.width * dst.height = Len(dst.buffer)

(***************************************************************************)
(* GridDraw::copy_rect(src, src_rect, dst_pos), the provided method.       *)
(***************************************************************************)
\* Rect::into_iter_row_major: the positions of the rectangle, row by row
into_iter_row_major(rect) == iter_pos("RowMajor", rect)

\* for pos in src_rect.into_iter_row_major() {
\*     if let Some(cell) = src.get(pos + src_rect.top_left()) {
\*         let _ = self.set(pos + dst_pos, cell) } }
RECURSIVE draw_copy_each(_, _, _, _, _, _)
draw_copy_each(d, s, src_rect, dst_pos, positions, i) ==
    IF i > Len(positions) THEN [g |-> d, log |-> {}]
    ELSE LET cell == get(s, "src", AddPos(positions[i], top_left(src_rect)))
             w == IF cell.some THEN set(d, "dst", AddPos(positions[i], dst_pos), cell.value)
                  ELSE [ok |-> FALSE, g |-> d, log |-> {}]
             rest == draw_copy_each(w.g, s, src_rect, dst_pos, positions, i + 1)
         IN [g |-> rest.g, log |-> cell.log \cup w.log \cup rest.log]

\* GridDraw::copy_rect
draw_copy_rect(d, s, src_rect, dst_pos) ==
    draw_copy_each(d, s, src_rect, dst_pos, into_iter_row_major(src_rect), 1)

DrawCopyRect ==
    /\ CanRect
    /\ \E src_rect \in Rects, x \in 0..MaxPos, y \in 0..MaxPos :
            LET r == draw_copy_rect(dst, src, src_rect, Pos(x, y))
            IN /\ Applied("draw_copy_rect", [src_rect |-> src_rect, dst_pos |-> Pos(x, y)],
                          [kind |-> "Unit"], r.g, r.log, MaxOps)
               /\ shadow' = RefCells(r.g)

DrawNext == DrawCopyRect

SpecDraw == Init /\ [][DrawNext]_vars

\* every destination cell at dst_pos + (i, j), with (i, j) inside src_rect's
\* size and src_rect.top_left + (i, j) inside the source, holds that source
\* cell; every other destination cell is as before
CopiedFromTopLeft ==
    \A p \in Cells(dst) :
        LET src_rect == last.args.src_rect
            dst_pos == last.args.dst_pos
            i == p.x - dst_pos.x
            j == p.y - dst_pos.y
            from == Pos(src_rect.left + i, src_rect.top + j)
        IN IF /\ i >= 0 /\ i < src_rect.width
              /\ j >= 0 /\ j < src_rect.height
              /\ InBounds(src, from)
           THEN Ref(dst, p) = Ref(src, from)
           ELSE Ref(dst, p) = Ref(last.before, p)

(***************************************************************************)
(* C27.  GridDraw::copy_rect(src, src_rect, dst_pos) copies the top-left   *)
(* cell of src_rect to dst_pos: for every src_rect, also one whose         *)
(* top-left is not the origin, the source cell at src_rect.top_left +      *)
(* (i, j) is written to dst_pos + (i, j) when both are in bounds, and no   *)
(* other destination cell changes.                                         *)
(***************************************************************************)
C27_DrawCopyRectFromTopLeft ==
    last.op = "draw_copy_rect" => CopiedFromTopLeft

\* the part of C27 that holds: a src_rect whose top-left is the origin
C27_DrawCopyRectFromOrigin ==
    last.op = "draw_copy_rect" /\ top_left(last.args.src_rect) = Pos(0, 0)
        => CopiedFromTopLeft

(***************************************************************************)
(* Lazy transformations of a source grid: view(bounds) and scale(factor).  *)
(***************************************************************************)
\* Pos - Pos on usize coordinates: an underflow panics in a debug build and
\* wraps in a release build
pos_sub(b, p, q) ==
    IF p.x < q.x \/ p.y < q.y
    THEN IF b = "debug" THEN [kind |-> "Panic", pos |-> NoPos]
         ELSE [kind |-> "Ok", pos |-> Pos((p.x - q.x) % Pow2(UsizeBits),
                                          (p.y - q.y) % Pow2(UsizeBits))]
    ELSE [kind |-> "Ok", pos |-> Pos(p.x - q.x, p.y - q.y)]

\* Rect::contains_pos
contains_pos(rect, pos) ==
    /\ rect.left <= pos.x /\ pos.x < right(rect)
    /\ rect.top <= pos.y /\ pos.y < bottom(rect)

\* Viewed::get
viewed_get(b, source, bounds, pos) ==
    LET d == pos_sub(b, pos, top_left(bounds))
    IN IF d.kind = "Panic" THEN [kind |-> "Panic", value |-> 0]
       ELSE IF ~contains_pos(bounds, d.pos) THEN [kind |-> "None", value |-> 0]
       ELSE LET r == get(source, "src", d.pos)
            IN IF r.some THEN [kind |-> "Some", value |-> r.value]
               ELSE [kind |-> "None", value |-> 0]

\* Viewed: TrustedSizeGrid::width and height
viewed_size(bounds) == [width |-> bounds.width, height |-> bounds.height]

\* Scaled::get: pos / scale divides both coordinates, and panics for scale 0
scaled_get(source, scale, pos) ==
    IF scale = 0 THEN [kind |-> "Panic", value |-> 0]
    ELSE LET r == get(source, "src", Pos(pos.x \div scale, pos.y \div scale))
         IN IF r.some THEN [kind |-> "Some", value |-> r.value]
            ELSE [kind |-> "None", value |-> 0]

\* Scaled::iter_rect: core::iter::empty()
scaled_iter_rect(source, scale, bounds) == <<>>

\* Scaled: TrustedSizeGrid::width and height
scaled_size(source, scale) ==
    [width |-> source.width * scale, height |-> source.height * scale]

\* a source grid, in a debug or a release build
InitTransform ==
    /\ build \in Builds
    /\ src \in SrcGrids \cup DstGrids
    /\ dst = NoGrid
    /\ last = Call("init", <<>>, [kind |-> "Unit"], NoGrid)
    /\ log = {}
    /\ shadow = <<>>
    /\ steps = 0

\* one call on a transformed grid; the source is never written
Transformed(op, args, ret) ==
    /\ last.op = "init"
    /\ last' = Call(op, args, ret, NoGrid)
    /\ UNCHANGED <<dst, src, log, shadow, steps, build>>

Scales == 0..MaxRect

\* positions tried on a scaled grid: its cells and one column / row beyond
ScaledCoords == 0..(MaxDim * MaxRect)

ViewedGet ==
    \E bounds \in Rects, x \in Coords, y \in Coords :
        Transformed("viewed_get", [bounds |-> bounds, pos |-> Pos(x, y)],
                    viewed_get(build, src, bounds, Pos(x, y)))

ViewedSize ==
    \E bounds \in Rects :
        Transformed("viewed_size", [bounds |-> bounds],
                    [kind |-> "Size", size |-> viewed_size(bounds)])

ScaledGet ==
    \E scale \in Scales, x \in ScaledCoords, y \in ScaledCoords :
        Transformed("scaled_get", [scale |-> scale, pos |-> Pos(x, y)],
                    scaled_get(src, scale, Pos(x, y)))

ScaledIterRect ==
    \E scale \in Scales, l \in 0..MaxPos, t \in 0..MaxPos,
       w \in 0..(MaxDim * MaxRect), h \in 0..(MaxDim * MaxRect) :
        Transformed("scaled_iter_rect", [scale |-> scale, bounds |-> from_ltwh(l, t, w, h)],
                    [kind |-> "Items",
                     items |-> scaled_iter_rect(src, scale, from_ltwh(l, t, w, h))])

ScaledSize ==
    \E scale \in Scales :
        Transformed("scaled_size", [scale |-> scale],
                    [kind |-> "Size", size |-> scaled_size(src, scale)])

TransformNext == ViewedGet \/ ViewedSize \/ ScaledGet \/ ScaledIterRect \/ ScaledSize

SpecTransform == InitTransform /\ [][TransformNext]_vars

\* what a read of position p of the source is documented to return
Expect(g, p) ==
    IF InBounds(g, p) THEN [kind |-> "Some", value |-> Ref(g, p)]
    ELSE [kind |-> "None", value |-> 0]

\* the view's element at p: the source element at bounds.top_left + p
ViewedExpect ==
    LET bounds == last.args.bounds
        p == last.args.pos
    IN IF p.x < bounds.width /\ p.y < bounds.height
       THEN Expect(src, AddPos(top_left(bounds), p))
       ELSE [kind |-> "None", value |-> 0]

(***************************************************************************)
(* C28.  view(bounds) presents the sub-region bounds of the source: its    *)
(* width and height are those of bounds, get(p) returns the source element *)
(* at bounds.top_left + p when p lies within the size of bounds and None   *)
(* for every other p, for any bounds, also ones whose top-left is not the  *)
(* origin, without panicking.                                              *)
(***************************************************************************)
C28_ViewPresentsSubRegion ==
    /\ last.op = "viewed_size" =>
          /\ last.ret.size.width = last.args.bounds.width
          /\ last.ret.size.height = last.args.bounds.height
    /\ last.op = "viewed_get" => last.ret = ViewedExpect

\* the part of C28 that holds: the size, and get for bounds at the origin
C28_ViewAtOrigin ==
    /\ last.op = "viewed_size" =>
          /\ last.ret.size.width = last.args.bounds.width
          /\ last.ret.size.height = last.args.bounds.height
    /\ last.op = "viewed_get" /\ top_left(last.args.bounds) = Pos(0, 0)
          => last.ret = ViewedExpect

\* the scaled grid's element at p: the source element at (p.x / k, p.y / k)
ScaledExpect(k, p) ==
    IF p.x < src.width * k /\ p.y < src.height * k
    THEN Expect(src, Pos(p.x \div k, p.y \div k))
    ELSE [kind |-> "None", value |-> 0]

\* the elements of the scaled grid at the positions of r, in row-major order
ScaledRectItems(k, r) ==
    LET positions == iter_pos("RowMajor", r)
        Present(p) == ScaledExpect(k, p).kind = "Some"
        kept == SelectSeq(positions, Present)
    IN [i \in 1..Len(kept) |-> ScaledExpect(k, kept[i]).value]

(***************************************************************************)
(* C29.  scale(k) with k >= 1 presents a grid of size (width * k,          *)
(* height * k) in which get(p) returns the source element at               *)
(* (p.x / k, p.y / k) for every p inside the scaled size and None outside  *)
(* it, and iter_rect(r) yields exactly those elements for the positions of *)
(* r in row-major order.                                                   *)
(***************************************************************************)
C29_ScaledIsNearestNeighbour ==
    last.op \in {"scaled_size", "scaled_get", "scaled_iter_rect"} /\ last.args.scale >= 1 =>
        /\ last.op = "scaled_size" =>
              /\ last.ret.size.width = src.width * last.args.scale
              /\ last.ret.size.height = src.height * last.args.scale
        /\ last.op = "scaled_get" =>
              last.ret = ScaledExpect(last.args.scale, last.args.pos)
        /\ last.op = "scaled_iter_rect" =>
              last.ret.items = ScaledRectItems(last.args.scale, last.args.bounds)

\* the part of C29 that holds: the size and get
C29_ScaledSizeAndGet ==
    last.op \in {"scaled_size", "scaled_get"} /\ last.args.scale >= 1 =>
        /\ last.op = "scaled_size" =>
              /\ last.ret.size.width = src.width * last.args.scale
              /\ last.ret.size.height = src.height * last.args.scale
        /\ last.op = "scaled_get" =>
              last.ret = ScaledExpect(last.args.scale, last.args.pos)

(***************************************************************************)
(* The two bodies of GridWrite::fill_rect_iter, applied to two grids of    *)
(* the same size and contents: the provided method to src, the one of the  *)
(* blanket implementation for size-trusting grids to dst.                  *)
(***************************************************************************)
\* self.set(pos, value) for every pair, in order
RECURSIVE set_each(_, _, _, _)
set_each(g, on, writes, i) ==
    IF i > Len(writes) THEN [g |-> g, log |-> {}]
    ELSE LET r == set(g, on, writes[i].pos, writes[i].value)
             rest == set_each(r.g, on, writes, i + 1)
         IN [g |-> rest.g, log |-> r.log \cup rest.log]

\* GridWrite::fill_rect_iter, the provided method:
\* RowMajor::iter_pos(dst).zip(iter).for_each(|(pos, value)| { let _ = self.set(pos, value); })
default_fill_rect_iter(g, on, bounds, iter) ==
    LET pos == iter_pos("RowMajor", bounds)
        n == Min(Len(pos), Len(iter))
    IN set_each(g, on, [i \in 1..n |-> [pos |-> pos[i], value |-> iter[i]]], 1)

\* two grids of the same size and initial contents
InitFill ==
    /\ build = "release"
    /\ dst \in DstGrids
    /\ src = dst
    /\ last = Call("init", <<>>, [kind |-> "Unit"], NoGrid)
    /\ log = {}
    /\ shadow = RefCells(dst)
    /\ steps = 0

FillRectIterBoth ==
    /\ CanRect
    /\ \E rect \in Rects, n \in IterLens :
            LET r == fill_rect_iter(dst, "dst", rect, IterVals(n))
                d == default_fill_rect_iter(src, "src", rect, IterVals(n))
            IN /\ dst' = r.g
               /\ src' = d.g
               /\ last' = Call("fill_rect_iter_both", [rect |-> rect, iter |-> IterVals(n)],
                               [kind |-> "Unit"], dst)
               /\ log' = r.log \cup d.log
               /\ shadow' = RefCells(r.g)
               /\ steps' = steps + MaxOps
    /\ UNCHANGED build

FillNext == FillRectIterBoth

SpecFill == InitFill /\ [][FillNext]_vars

(***************************************************************************)
(* C30.  For every rectangle (also one that extends beyond the grid) and   *)
(* every value sequence, the default fill_rect_iter and the size-trusting  *)
(* fill_rect_iter leave grids of the same size and initial contents in the *)
(* same final state.                                                       *)
(***************************************************************************)
C30_FillRectIterBodiesAgree ==
    last.op = "fill_rect_iter_both" => dst = src

\* the part of C30 that holds: a row-major grid and a rectangle that does
\* not reach beyond the grid's right edge
C30_AgreeWhenRowsAreWhole ==
    /\ last.op = "fill_rect_iter_both"
    /\ last.before.layout = "RowMajor"
    /\ right(last.args.rect) <= last.before.width
    => dst = src

====
